---- MODULE Spec2Model ----
(***************************************************************************)
(* Model of main.py: a FastAPI backend with four request handlers          *)
(* (get_weather, analyze_sentiment, vibe_note, test_database) plus two     *)
(* greeting routes.  Every request is handled on its own; the only state   *)
(* that outlives a request is the configuration fixed at start-up (the     *)
(* module-level `analyzer` and the process environment).                   *)
(*                                                                         *)
(* Strings are sequences of characters.  A character is written as a       *)
(* one-character TLA+ string, or by its code point ("U+0178") when it is   *)
(* not ASCII, exactly as it stands in the source file.  Scores are         *)
(* integers in units of 1/Scale.                                           *)
(***************************************************************************)
EXTENDS Integers, Sequences, FiniteSets

VARIABLES analyzer, env, db, pc, req, resp, frame, netCalls

vars == <<analyzer, env, db, pc, req, resp, frame, netCalls>>

(***************************************************************************)
(* Bounds of the model.                                                    *)
(***************************************************************************)
MaxFrags == 3
CompoundWindow == 4
MaxCollections == 11
MaxErrLen == 51
KeywordPrefix == 5
MaxMoodWords == 2
MaxWeatherWords == 2

(***************************************************************************)
(* Python values.                                                          *)
(***************************************************************************)
\* None where a string is expected (no character is spelled "None").
NoneStr == <<"None">>

\* One unit of score is 1/Scale: 0.2 is 20000, 0.0001 is 10.
Scale == 10 ^ 5

(***************************************************************************)
(* str.lower(), str.strip(), `w in s`.                                     *)
(***************************************************************************)
LowerChar(c) ==
    CASE c = "A" -> "a" [] c = "B" -> "b" [] c = "C" -> "c" [] c = "D" -> "d"
      [] c = "E" -> "e" [] c = "F" -> "f" [] c = "G" -> "g" [] c = "H" -> "h"
      [] c = "I" -> "i" [] c = "J" -> "j" [] c = "K" -> "k" [] c = "L" -> "l"
      [] c = "M" -> "m" [] c = "N" -> "n" [] c = "O" -> "o" [] c = "P" -> "p"
      [] c = "Q" -> "q" [] c = "R" -> "r" [] c = "S" -> "s" [] c = "T" -> "t"
      [] c = "U" -> "u" [] c = "V" -> "v" [] c = "W" -> "w" [] c = "X" -> "x"
      [] c = "Y" -> "y" [] c = "Z" -> "z"
      [] c = "U+0178" -> "U+00FF"
      [] c = "U+0160" -> "U+0161"
      [] c = "U+017D" -> "U+017E"
      [] OTHER -> c

Lower(s) == [i \in 1..Len(s) |-> LowerChar(s[i])]

\* The characters str.strip() removes.
Whitespace == {" ", "TAB", "LF", "CR", "VT", "FF", "U+00A0"}

RECURSIVE LStrip(_)
LStrip(s) ==
    IF s # <<>> /\ Head(s) \in Whitespace THEN LStrip(Tail(s)) ELSE s

RECURSIVE RStrip(_)
RStrip(s) ==
    IF s # <<>> /\ s[Len(s)] \in Whitespace
    THEN RStrip(SubSeq(s, 1, Len(s) - 1))
    ELSE s

\* A handler that forgets .strip().
StripNothing(s) == s

Strip(s) == RStrip(LStrip(s))

\* `w in s`: w is a contiguous run of s.
Contains(s, w) ==
    \E i \in 0..(Len(s) - Len(w)) : SubSeq(s, i + 1, i + Len(w)) = w

\* `x or ""` for an optional string.
OrEmpty(s) == IF s = NoneStr THEN <<>> ELSE s

RECURSIVE Concat(_)
Concat(ss) == IF ss = <<>> THEN <<>> ELSE Head(ss) \o Concat(Tail(ss))

\* The strings made of at most `most` of the given fragments.
StringsUpTo(frags, most) ==
    {Concat(fs) : fs \in UNION {[1..k -> frags] : k \in 0..most}}

StringsOf(frags) == StringsUpTo(frags, MaxFrags)

(***************************************************************************)
(* analyze_sentiment                                                       *)
(***************************************************************************)
positives ==
    << <<"h","a","p","p","y">>,
       <<"g","r","e","a","t">>,
       <<"a","w","e","s","o","m","e">>,
       <<"l","o","v","e">>,
       <<"g","o","o","d">>,
       <<"U+00F0","U+0178","U+02DC","U+0160">>,
       <<":",")">>,
       <<"U+00F0","U+0178","U+02DC","U+20AC">>,
       <<"U+00F0","U+0178","U+02DC","U+201E">>,
       <<"U+00F0","U+0178","U+02DC","U+017D">>,
       <<"U+00F0","U+0178","U+2018">> >>

negatives ==
    << <<"s","a","d">>,
       <<"b","a","d">>,
       <<"t","e","r","r","i","b","l","e">>,
       <<"h","a","t","e">>,
       <<"a","n","g","r","y">>,
       <<"U+00F0","U+0178","U+02DC","U+00A2">>,
       <<":","(">>,
       <<"U+00F0","U+0178","U+02DC","U+00AD">>,
       <<"U+00F0","U+0178","U+02DC","U+00A1">>,
       <<"U+00F0","U+0178","U+02DC","U+017E">>,
       <<"U+00F0","U+0178","U+2018","U+017D">> >>

\* A count of every place a word of the list starts at.
RECURSIVE CountOccurrences(_, _)
CountOccurrences(lower, words) ==
    IF words = <<>> THEN 0
    ELSE Cardinality({i \in 0..(Len(lower) - Len(Head(words))) :
             SubSeq(lower, i + 1, i + Len(Head(words))) = Head(words)})
         + CountOccurrences(lower, Tail(words))

\* sum(w in lower for w in words): each word adds True (1) or False (0).
RECURSIVE CountPresent(_, _)
CountPresent(lower, words) ==
    IF words = <<>> THEN 0
    ELSE (IF Contains(lower, Head(words)) THEN 1 ELSE 0)
         + CountPresent(lower, Tail(words))

Min(a, b) == IF a <= b THEN a ELSE b

\* The score without its cap.
FallbackScoreUncapped(d) == 60000 + 10000 * d

\* 0.6 + 0.1 * d, capped at 1.0.
FallbackScore(d) == Min(Scale, 60000 + 10000 * d)

\* The three returns of the fallback heuristic.
FallbackResult(p, n) ==
    IF p > n THEN [label |-> "POSITIVE", score |-> FallbackScore(p - n)]
    ELSE IF n > p THEN [label |-> "NEGATIVE", score |-> FallbackScore(n - p)]
    ELSE [label |-> "NEUTRAL", score |-> 50000]

\* Thresholds that leave the cutoffs themselves out.
CompoundLabelStrict(compound) ==
    IF compound > 20000 THEN "POSITIVE"
    ELSE IF compound < -20000 THEN "NEGATIVE"
    ELSE "NEUTRAL"

\* The label of a compound score.
CompoundLabel(compound) ==
    IF compound >= 20000 THEN "POSITIVE"
    ELSE IF compound <= -20000 THEN "NEGATIVE"
    ELSE "NEUTRAL"

\* round(x, 4): to the nearest multiple of 0.0001.  A value exactly half way
\* rounds by the binary expansion of the double, which an integer does not
\* carry; such values are kept out of Compounds.
Round4(x) ==
    LET a == IF x >= 0 THEN x ELSE -x
        r == ((a + 5) \div 10) * 10
    IN  IF x >= 0 THEN r ELSE -r

\* What analyzer.polarity_scores(text)["compound"] may be: the ends of the
\* range, zero, 0.19, and the values around both thresholds.
Compounds ==
    {-Scale, 0, Scale, 19000, -19000}
    \cup {s * (20000 + d) : s \in {-1, 1},
                            d \in {e \in -CompoundWindow..CompoundWindow :
                                        e % 10 # 5}}

SentimentFrags ==
    { <<" ">>, <<"TAB">>, <<"B","a","d">>, <<"g","e">>,
      <<"h","a","p","p","y">>, <<" ","a","n","d"," ","g","r","e","a","t">>,
      <<":">>, <<")">>, <<"(">> }

Texts == StringsOf(SentimentFrags)

\* Texts that spell a chosen set of the first KeywordPrefix keywords of each
\* list, one after the other with a space between.
RECURSIVE JoinWords(_, _, _)
JoinWords(words, chosen, i) ==
    IF i > Len(words) THEN <<>>
    ELSE (IF i \in chosen THEN words[i] \o <<" ">> ELSE <<>>)
         \o JoinWords(words, chosen, i + 1)

KeywordTexts ==
    {JoinWords(positives, P, 1) \o JoinWords(negatives, N, 1) :
        P \in SUBSET (1..KeywordPrefix), N \in SUBSET (1..KeywordPrefix)}

NoFrame == [op |-> "none"]

\* The handler, for a request whose text is drawn from `texts`.
Sentiment(texts) ==
    /\ pc = "idle"
    /\ \E payload_text \in texts :
        LET text == Strip(payload_text) IN
        /\ req' = [op |-> "analyze_sentiment", text |-> payload_text]
        /\ IF text = <<>>
           THEN /\ resp' = [status |-> 200,
                            body |-> [label |-> "NEUTRAL", score |-> 0]]
                /\ frame' = [op |-> "analyze_sentiment", path |-> "empty",
                             analyzerCalls |-> 0]
           ELSE IF analyzer = "None"
           THEN LET lower == Lower(text)
                    p == CountPresent(lower, positives)
                    n == CountPresent(lower, negatives)
                IN  /\ resp' = [status |-> 200, body |-> FallbackResult(p, n)]
                    /\ frame' = [op |-> "analyze_sentiment",
                                 path |-> "fallback", analyzerCalls |-> 0,
                                 lower |-> lower, p |-> p, n |-> n]
           ELSE \E compound \in Compounds :
                    /\ resp' = [status |-> 200,
                                body |-> [label |-> CompoundLabel(compound),
                                          score |-> Round4(compound)]]
                    /\ frame' = [op |-> "analyze_sentiment",
                                 path |-> "analyzer", analyzerCalls |-> 1,
                                 compound |-> compound]
    /\ pc' = "done"
    /\ UNCHANGED <<analyzer, env, db, netCalls>>

AnalyzeSentiment == Sentiment(Texts)

\* The same handler on texts that name many keywords at once.
AnalyzeKeywordText == Sentiment(KeywordTexts)

\* The framework serialises the handler's result and the request is over.
Respond ==
    /\ pc = "done"
    /\ pc' = "idle"
    /\ req' = [op |-> "none"]
    /\ resp' = [status |-> 0]
    /\ frame' = NoFrame
    /\ netCalls' = 0
    /\ UNCHANGED <<analyzer, env, db>>

NoEnv == [OPENWEATHER_API_KEY |-> NoneStr, DATABASE_URL |-> NoneStr,
          DATABASE_NAME |-> NoneStr]

NoDb == [module |-> "missing"]

InitRequest ==
    /\ pc = "idle"
    /\ req = [op |-> "none"]
    /\ resp = [status |-> 0]
    /\ frame = NoFrame
    /\ netCalls = 0

\* The module-level try/except: the analyzer is built or it is None.
InitSentiment ==
    /\ analyzer \in {"SentimentIntensityAnalyzer", "None"}
    /\ env = NoEnv
    /\ db = NoDb
    /\ InitRequest

NextSentiment == AnalyzeSentiment \/ Respond

SpecSentiment == InitSentiment /\ [][NextSentiment]_vars

(***************************************************************************)
(* Claims about analyze_sentiment.                                         *)
(***************************************************************************)
SentimentDone == pc = "done" /\ req.op = "analyze_sentiment"

IsBlank(s) == \A i \in 1..Len(s) : s[i] \in Whitespace

OnAnalyzerPath ==
    SentimentDone /\ analyzer # "None" /\ ~IsBlank(req.text)

OnFallbackPath ==
    SentimentDone /\ analyzer = "None" /\ ~IsBlank(req.text)

\* C1: a text that is empty or all whitespace gets {NEUTRAL, 0.0}, with or
\* without the analyzer, and neither the analyzer nor the keyword lists are
\* consulted.
C1_BlankTextIsNeutral ==
    (SentimentDone /\ IsBlank(req.text)) =>
        /\ resp = [status |-> 200, body |-> [label |-> "NEUTRAL", score |-> 0]]
        /\ frame.path = "empty"
        /\ frame.analyzerCalls = 0

C1_Witness ==
    /\ SentimentDone
    /\ analyzer # "None"
    /\ Len(req.text) >= 2
    /\ IsBlank(req.text)
    /\ resp.body = [label |-> "NEUTRAL", score |-> 0]

\* C2: on the analyzer path the label is POSITIVE exactly when the compound
\* is at least 0.2, NEGATIVE exactly when it is at most -0.2, and NEUTRAL
\* otherwise; 0.2 gives POSITIVE, -0.2 NEGATIVE, 0.19 NEUTRAL.
C2_LabelFollowsCompound ==
    OnAnalyzerPath =>
        /\ frame.path = "analyzer"
        /\ frame.compound \in (-Scale)..Scale
        /\ (resp.body.label = "POSITIVE") <=> (5 * frame.compound >= Scale)
        /\ (resp.body.label = "NEGATIVE") <=> (5 * frame.compound <= -Scale)
        /\ (resp.body.label = "NEUTRAL") <=>
               (5 * frame.compound < Scale /\ 5 * frame.compound > -Scale)
        /\ (frame.compound = 20000 => resp.body.label = "POSITIVE")
        /\ (frame.compound = -20000 => resp.body.label = "NEGATIVE")
        /\ (frame.compound = 19000 => resp.body.label = "NEUTRAL")

C2_Witness ==
    /\ OnAnalyzerPath
    /\ frame.compound = 20000
    /\ resp.body.label = "POSITIVE"

C4_FallbackScoring ==
    OnFallbackPath =>
        LET p == frame.p
            n == frame.n
            uncapped == 6 * (Scale \div 10)
                            + (Scale \div 10) * (IF p > n THEN p - n ELSE n - p)
            capped == IF uncapped > Scale THEN Scale ELSE uncapped
        IN  /\ resp.status = 200
            /\ p > n => resp.body = [label |-> "POSITIVE", score |-> capped]
            /\ n > p => resp.body = [label |-> "NEGATIVE", score |-> capped]
            /\ p = n => resp.body = [label |-> "NEUTRAL",
                                     score |-> Scale \div 2]
            /\ resp.body.score >= 0
            /\ resp.body.score <= Scale
            /\ resp.body.score = Scale \div 2 => resp.body.label = "NEUTRAL"

\* The cap is at work: five more positive keywords than negative ones.
C4_Witness ==
    /\ OnFallbackPath
    /\ frame.p - frame.n >= 5
    /\ resp.body = [label |-> "POSITIVE", score |-> Scale]

\* The places of s where w starts.
Occurrences(s, w) ==
    {i \in 0..(Len(s) - Len(w)) : SubSeq(s, i + 1, i + Len(w)) = w}

RECURSIVE TotalOccurrences(_, _)
TotalOccurrences(s, words) ==
    IF words = <<>> THEN 0
    ELSE Cardinality(Occurrences(s, Head(words)))
         + TotalOccurrences(s, Tail(words))

\* The keywords of a list that occur in the text once its letters are
\* lowercased, wherever they start and whatever surrounds them.
KeywordsPresent(text, words) ==
    {k \in 1..Len(words) :
        \E i \in 0..(Len(text) - Len(words[k])) :
            \A j \in 1..Len(words[k]) : LowerChar(text[i + j]) = words[k][j]}

\* C5 as stated: p and n count every occurrence of every keyword in the
\* lowercased text.
C5_CountsEveryOccurrence ==
    OnFallbackPath =>
        /\ frame.p = TotalOccurrences(frame.lower, positives)
        /\ frame.n = TotalOccurrences(frame.lower, negatives)

\* C5 as amended: p and n are the numbers of keywords of each list that occur
\* in the lowercased text as literal substrings, not at word boundaries; a
\* keyword counts once however often it occurs; two positive keywords and no
\* negative one give POSITIVE with 0.8.
C5_CountsKeywordsPresent ==
    OnFallbackPath =>
        /\ frame.p = Cardinality(KeywordsPresent(req.text, positives))
        /\ frame.n = Cardinality(KeywordsPresent(req.text, negatives))
        /\ (frame.p = 2 /\ frame.n = 0) =>
               resp.body = [label |-> "POSITIVE", score |-> 80000]

\* "BadgeBad": a keyword inside a longer word, in capitals, twice.
C5_Witness ==
    /\ OnFallbackPath
    /\ req.text = <<"B","a","d","g","e","B","a","d">>
    /\ frame.n = 1
    /\ frame.p = 0
    /\ resp.body = [label |-> "NEGATIVE", score |-> 70000]

(***************************************************************************)
(* vibe_note                                                               *)
(***************************************************************************)
RainPhrase == "the rhythm of the rain sets a calm tempo"
CloudPhrase == "soft clouds invite reflection and slow moments"
ClearPhrase == "clear skies spark light and optimism"
SnowPhrase == "snow hushes the world into a gentle hush"
StormPhrase == "storms rumble, but you carry quiet courage"
GenericPhrase == "the air feels open to possibility"

HappyPhrase == "your energy feels bright and contagious"
SadPhrase ==
    "be gentle with yourself<U+00E2><U+20AC><U+201D>small steps are still progress"
AngryPhrase == "take a breath; let movement help shift the heat"
DefaultPhrase ==
    "you<U+00E2><U+20AC><U+2122>re steady and present<U+00E2><U+20AC><U+201D>keep following the simple good"

W_rain == <<"r","a","i","n">>
W_drizzle == <<"d","r","i","z","z","l","e">>
W_cloud == <<"c","l","o","u","d">>
W_overcast == <<"o","v","e","r","c","a","s","t">>
W_clear == <<"c","l","e","a","r">>
W_snow == <<"s","n","o","w">>
W_storm == <<"s","t","o","r","m">>
W_thunder == <<"t","h","u","n","d","e","r">>

\* The chain with the clear test ahead of the cloud/overcast test.
WeatherPhraseClearFirst(wm, wd) ==
    IF Contains(wm, W_rain) \/ Contains(wm, W_drizzle) THEN RainPhrase
    ELSE IF Contains(wm, W_clear) THEN ClearPhrase
    ELSE IF Contains(wm, W_cloud) \/ Contains(wd, W_overcast) THEN CloudPhrase
    ELSE IF Contains(wm, W_snow) THEN SnowPhrase
    ELSE IF Contains(wm, W_storm) \/ Contains(wm, W_thunder) THEN StormPhrase
    ELSE GenericPhrase

\* The if/elif chain over wm and wd.
WeatherPhrase(wm, wd) ==
    IF Contains(wm, W_rain) \/ Contains(wm, W_drizzle) THEN RainPhrase
    ELSE IF Contains(wm, W_cloud) \/ Contains(wd, W_overcast) THEN CloudPhrase
    ELSE IF Contains(wm, W_clear) THEN ClearPhrase
    ELSE IF Contains(wm, W_snow) THEN SnowPhrase
    ELSE IF Contains(wm, W_storm) \/ Contains(wm, W_thunder) THEN StormPhrase
    ELSE GenericPhrase

happy_keys ==
    << <<"h","a","p","p","y">>,
       <<"g","r","e","a","t">>,
       <<"g","o","o","d">>,
       <<"j","o","y">>,
       <<"e","x","c","i","t","e","d">>,
       <<"U+00F0","U+0178","U+02DC","U+0160">>,
       <<"U+00F0","U+0178","U+02DC","U+20AC">>,
       <<"U+00F0","U+0178","U+02DC","U+201E">>,
       <<"U+00F0","U+0178","U+02DC","U+017D">>,
       <<":",")">> >>

sad_keys ==
    << <<"s","a","d">>,
       <<"d","o","w","n">>,
       <<"t","i","r","e","d">>,
       <<"l","o","w">>,
       <<"a","n","x","i","o","u","s">>,
       <<"U+00F0","U+0178","U+02DC","U+00A2">>,
       <<"U+00F0","U+0178","U+02DC","U+00AD">>,
       <<":","(">>,
       <<"U+00F0","U+0178","U+02DC","U+017E">> >>

angry_keys ==
    << <<"a","n","g","r","y">>,
       <<"f","r","u","s","t","r","a","t","e","d">>,
       <<"m","a","d">>,
       <<"U+00F0","U+0178","U+02DC","U+00A1">> >>

\* any(k in s for k in keys)
AnyKey(s, keys) == \E i \in 1..Len(keys) : Contains(s, keys[i])

\* The chain with the angry test ahead of the sad test.
MoodPhraseAngryFirst(mood_lower) ==
    IF AnyKey(mood_lower, happy_keys) THEN HappyPhrase
    ELSE IF AnyKey(mood_lower, angry_keys) THEN AngryPhrase
    ELSE IF AnyKey(mood_lower, sad_keys) THEN SadPhrase
    ELSE DefaultPhrase

\* The if/elif chain over mood_lower.
MoodPhrase(mood_lower) ==
    IF AnyKey(mood_lower, happy_keys) THEN HappyPhrase
    ELSE IF AnyKey(mood_lower, sad_keys) THEN SadPhrase
    ELSE IF AnyKey(mood_lower, angry_keys) THEN AngryPhrase
    ELSE DefaultPhrase

\* f"{base}, {weather_phrase}; {mood_phrase}."
Note(base, weather_phrase, mood_phrase) ==
    base \o ", " \o weather_phrase \o "; " \o mood_phrase \o "."

MoodFrags ==
    { <<" ">>, <<"H","a","p","p","y">>, <<"s","a","d">>, <<"m","a","d">> }

Moods == StringsUpTo(MoodFrags, MaxMoodWords)

WeatherFrags ==
    { <<"R","a","i","n">>, W_drizzle, W_cloud, W_clear, W_snow, W_storm,
      W_thunder }

WeatherMains == {NoneStr} \cup StringsUpTo(WeatherFrags, MaxWeatherWords)

WeatherDescs ==
    { NoneStr, <<"O","v","e","r","c","a","s","t">>, W_rain }

VibeNote ==
    /\ pc = "idle"
    /\ \E payload_mood \in Moods, weather_main \in WeatherMains,
          weather_desc \in WeatherDescs :
        LET mood == Strip(OrEmpty(payload_mood))
            wm == Lower(OrEmpty(weather_main))
            wd == Lower(OrEmpty(weather_desc))
            base == "Today"
            weather_phrase == WeatherPhrase(wm, wd)
            mood_lower == Lower(mood)
            mood_phrase == MoodPhrase(mood_lower)
        IN  /\ req' = [op |-> "vibe_note", mood |-> payload_mood,
                       weather_main |-> weather_main,
                       weather_desc |-> weather_desc]
            /\ frame' = [op |-> "vibe_note", weather_phrase |-> weather_phrase,
                         mood_phrase |-> mood_phrase]
            /\ resp' = [status |-> 200,
                        body |-> [note |-> Note(base, weather_phrase,
                                                mood_phrase)]]
    /\ pc' = "done"
    /\ UNCHANGED <<analyzer, env, db, netCalls>>

InitVibe ==
    /\ analyzer = "None"
    /\ env = NoEnv
    /\ db = NoDb
    /\ InitRequest

NextVibe == VibeNote \/ Respond

SpecVibe == InitVibe /\ [][NextVibe]_vars

(***************************************************************************)
(* Claims about vibe_note.                                                 *)
(***************************************************************************)
VibeDone == pc = "done" /\ req.op = "vibe_note"

\* C6: the weather phrase is that of the first rule that matches, in the
\* order rain/drizzle, cloud/overcast, clear, snow, storm/thunder, generic;
\* weather_main and weather_desc are lowercased, absent counts as empty, and
\* weather_desc matters only through "overcast".
C6_WeatherPriority ==
    VibeDone =>
        LET wm == Lower(OrEmpty(req.weather_main))
            wd == Lower(OrEmpty(req.weather_desc))
            r1 == Contains(wm, W_rain) \/ Contains(wm, W_drizzle)
            r2 == Contains(wm, W_cloud) \/ Contains(wd, W_overcast)
            r3 == Contains(wm, W_clear)
            r4 == Contains(wm, W_snow)
            r5 == Contains(wm, W_storm) \/ Contains(wm, W_thunder)
            ph == frame.weather_phrase
        IN  /\ r1 => ph = RainPhrase
            /\ (~r1 /\ r2) => ph = CloudPhrase
            /\ (~r1 /\ ~r2 /\ r3) => ph = ClearPhrase
            /\ (~r1 /\ ~r2 /\ ~r3 /\ r4) => ph = SnowPhrase
            /\ (~r1 /\ ~r2 /\ ~r3 /\ ~r4 /\ r5) => ph = StormPhrase
            /\ (~r1 /\ ~r2 /\ ~r3 /\ ~r4 /\ ~r5) => ph = GenericPhrase

\* weather_main "clear", weather_desc "Overcast": rule 2 beats rule 3.
C6_Witness ==
    /\ VibeDone
    /\ req.weather_main = W_clear
    /\ req.weather_desc = <<"O","v","e","r","c","a","s","t">>
    /\ frame.weather_phrase = CloudPhrase

\* C7: the mood phrase is that of the first set, in the order happy, sad,
\* angry, with a keyword in the lowercased mood; none (also an empty or
\* all-whitespace mood) gives the default phrase; the note is the non-empty
\* string "Today, {weather_phrase}; {mood_phrase}.".
C7_MoodPriorityAndTemplate ==
    VibeDone =>
        LET m == Lower(req.mood)
            h == \E i \in 1..Len(happy_keys) : Contains(m, happy_keys[i])
            s == \E i \in 1..Len(sad_keys) : Contains(m, sad_keys[i])
            a == \E i \in 1..Len(angry_keys) : Contains(m, angry_keys[i])
            ph == frame.mood_phrase
        IN  /\ h => ph = HappyPhrase
            /\ (~h /\ s) => ph = SadPhrase
            /\ (~h /\ ~s /\ a) => ph = AngryPhrase
            /\ (~h /\ ~s /\ ~a) => ph = DefaultPhrase
            /\ IsBlank(req.mood) => ph = DefaultPhrase
            /\ resp.body.note =
                   "Today, " \o frame.weather_phrase \o "; " \o ph \o "."
            /\ resp.body.note # ""
            /\ resp.status = 200

\* "madsad": a sad keyword and an angry keyword, no happy one.
C7_Witness ==
    /\ VibeDone
    /\ req.mood = <<"m","a","d","s","a","d">>
    /\ frame.mood_phrase = SadPhrase

(***************************************************************************)
(* get_weather                                                             *)
(*                                                                         *)
(* A JSON value is a record tagged by t: "absent" (the key is not in its   *)
(* dict), "null", "val" (a number or a string), "obj" (a dict, f its       *)
(* keys) or "list" (items its elements).                                   *)
(***************************************************************************)
Absent == [t |-> "absent"]
JNull == [t |-> "null"]
JVal(v) == [t |-> "val", v |-> v]
JObj(f) == [t |-> "obj", f |-> f]
JList(items) == [t |-> "list", items |-> items]

\* The result of an expression that may raise.
Ok(v) == [ok |-> TRUE, v |-> v]
Raise(e) == [ok |-> FALSE, exc |-> e]

\* data.get(c, {}).get(leaf): the default {} stands in only for a missing
\* key; a value that is no dict has no .get.
GetNested(data, c, leaf) ==
    LET container == data.f[c]
    IN  IF container.t = "absent" THEN Ok(JNull)
        ELSE IF container.t = "obj"
        THEN Ok(IF container.f[leaf].t = "absent" THEN JNull
                ELSE container.f[leaf])
        ELSE Raise("AttributeError")

\* bool(x) of a JSON value.
Truthy(j) ==
    CASE j.t = "absent" -> FALSE
      [] j.t = "null" -> FALSE
      [] j.t = "list" -> j.items # <<>>
      [] j.t = "obj" -> \E k \in DOMAIN j.f : j.f[k].t # "absent"
      [] OTHER -> TRUE

\* (data.get("weather") or [{}])[0].get(leaf)
GetWeather0(data, leaf) ==
    LET w == data.f["weather"]
    IN  IF ~Truthy(w) THEN Ok(JNull)
        ELSE IF w.t = "list"
        THEN LET first == w.items[1]
             IN  IF first.t = "obj"
                 THEN Ok(IF first.f[leaf].t = "absent" THEN JNull
                         ELSE first.f[leaf])
                 ELSE Raise("AttributeError")
        ELSE IF w.t = "obj" THEN Raise("KeyError")
        ELSE Raise("TypeError")

\* The nine expressions of the result dict, in evaluation order.
ResultFields(data) ==
    << <<"city", Ok(IF data.f["name"].t = "absent" THEN JNull
                    ELSE data.f["name"])>>,
       <<"country", GetNested(data, "sys", "country")>>,
       <<"temp", GetNested(data, "main", "temp")>>,
       <<"feels_like", GetNested(data, "main", "feels_like")>>,
       <<"humidity", GetNested(data, "main", "humidity")>>,
       <<"wind", GetNested(data, "wind", "speed")>>,
       <<"weather_main", GetWeather0(data, "main")>>,
       <<"weather_desc", GetWeather0(data, "description")>>,
       <<"icon", GetWeather0(data, "icon")>> >>

\* r.json() and the result dict on a 200 answer: the result, or the 500 of the first
\* expression that raises.
Normalize(body) ==
    IF body.t = "invalid" THEN [status |-> 500, detail |-> "str(e)"]
    ELSE IF body.t # "obj" THEN [status |-> 500, detail |-> "str(e)"]
    ELSE LET fs == ResultFields(body)
         IN  IF \E i \in 1..Len(fs) : ~fs[i][2].ok
             THEN [status |-> 500, detail |-> "str(e)"]
             ELSE [status |-> 200,
                   body |-> [city |-> fs[1][2].v, country |-> fs[2][2].v,
                             temp |-> fs[3][2].v, feels_like |-> fs[4][2].v,
                             humidity |-> fs[5][2].v, wind |-> fs[6][2].v,
                             weather_main |-> fs[7][2].v,
                             weather_desc |-> fs[8][2].v,
                             icon |-> fs[9][2].v]]

\* `a or b` for two optional strings.
StrOr(a, b) == IF a # NoneStr /\ a # <<>> THEN a ELSE b

\* The environment's key ahead of the parameter.
ResolveKeyEnvFirst(api_key, env_key) == StrOr(env_key, api_key)

\* key = api_key or os.getenv("OPENWEATHER_API_KEY")
ResolveKey(api_key, env_key) == StrOr(api_key, env_key)

Keys == {NoneStr, <<>>}

ApiKeys == Keys \cup {<<"q","k">>}

EnvKeys == Keys \cup {<<"e","k">>}

Cities == { <<"O","s","l","o">> }

SysValues ==
    { Absent, JNull, JObj([country |-> Absent]),
      JObj([country |-> JVal("NO")]) }

MainValues ==
    { Absent, JNull,
      JObj([temp |-> Absent, feels_like |-> Absent, humidity |-> Absent]),
      JObj([temp |-> JVal(21), feels_like |-> Absent, humidity |-> JNull]),
      JObj([temp |-> JVal(21), feels_like |-> JVal(20),
            humidity |-> JVal(40)]) }

WindValues ==
    { Absent, JNull, JObj([speed |-> Absent]), JObj([speed |-> JVal(3)]) }

WeatherItem ==
    JObj([main |-> JVal("Rain"), description |-> JVal("light rain"),
          icon |-> JVal("10d")])

WeatherValues ==
    { Absent, JNull, JList(<<>>),
      JList(<<JObj([main |-> Absent, description |-> Absent,
                    icon |-> Absent])>>),
      JList(<<WeatherItem>>),
      JList(<<JNull>>) }

\* The JSON objects the provider may answer with.
ProviderObjects ==
    { JObj([name |-> nm, sys |-> sy, main |-> mn, wind |-> wn,
            weather |-> we]) :
        nm \in {Absent, JVal("Oslo")}, sy \in SysValues, mn \in MainValues,
        wn \in WindValues, we \in WeatherValues }

\* What requests.get may do: raise, or answer with a status and a body that
\* is a JSON object, another JSON value, or no JSON at all.
ProviderOutcomes ==
    { [kind |-> "raises"] }
    \cup { [kind |-> "answer", status_code |-> c, body |-> JNull] :
              c \in {204, 401, 404, 429, 500} }
    \cup { [kind |-> "answer", status_code |-> 200, body |-> b] :
              b \in ProviderObjects
                      \cup {[t |-> "invalid"], JList(<<>>), JNull} }

GetWeather ==
    /\ pc = "idle"
    /\ \E city \in Cities, api_key \in ApiKeys :
        LET key == ResolveKey(api_key, env.OPENWEATHER_API_KEY) IN
        /\ req' = [op |-> "get_weather", city |-> city, api_key |-> api_key]
        /\ IF key = NoneStr \/ key = <<>>
           THEN /\ resp' = [status |-> 500,
                            detail |-> "OPENWEATHER_API_KEY not set on server; provide ?api_key=..."]
                /\ frame' = [op |-> "get_weather", key |-> key,
                             sent |-> "nothing"]
                /\ netCalls' = 0
           ELSE \E r \in ProviderOutcomes :
                /\ netCalls' = 1
                /\ frame' = [op |-> "get_weather", key |-> key,
                             sent |-> [q |-> city, appid |-> key,
                                       units |-> "metric"],
                             r |-> r]
                /\ resp' = IF r.kind = "raises"
                           THEN [status |-> 500, detail |-> "str(e)"]
                           ELSE IF r.status_code # 200
                           THEN [status |-> r.status_code, detail |-> "r.text"]
                           ELSE Normalize(r.body)
    /\ pc' = "done"
    /\ UNCHANGED <<analyzer, env, db>>

InitWeather ==
    /\ analyzer = "None"
    /\ env \in {[NoEnv EXCEPT !.OPENWEATHER_API_KEY = k] : k \in EnvKeys}
    /\ db = NoDb
    /\ InitRequest

NextWeather == GetWeather \/ Respond

SpecWeather == InitWeather /\ [][NextWeather]_vars

(***************************************************************************)
(* Claims about get_weather.                                               *)
(***************************************************************************)
WeatherDone == pc = "done" /\ req.op = "get_weather"

Supplied(k) == k # NoneStr /\ Len(k) > 0

\* C8: the key is the api_key parameter if given, else OPENWEATHER_API_KEY;
\* with neither, the call fails with the 500 configuration error and nothing
\* is sent; otherwise exactly one request is sent, with that key, whatever
\* the provider then does.
C8_KeyResolutionAndOneCall ==
    WeatherDone =>
        LET envKey == env.OPENWEATHER_API_KEY
        IN  /\ Supplied(req.api_key) => frame.key = req.api_key
            /\ (~Supplied(req.api_key) /\ Supplied(envKey)) =>
                   frame.key = envKey
            /\ (~Supplied(req.api_key) /\ ~Supplied(envKey)) =>
                   /\ resp.status = 500
                   /\ resp.detail =
                          "OPENWEATHER_API_KEY not set on server; provide ?api_key=..."
                   /\ netCalls = 0
                   /\ frame.sent = "nothing"
            /\ (Supplied(req.api_key) \/ Supplied(envKey)) =>
                   /\ netCalls = 1
                   /\ frame.sent = [q |-> req.city, appid |-> frame.key,
                                    units |-> "metric"]
                   /\ frame.r \in ProviderOutcomes

\* Both keys are present and the provider call raises: the parameter's key
\* was sent, once.
C8_Witness ==
    /\ WeatherDone
    /\ Supplied(req.api_key)
    /\ Supplied(env.OPENWEATHER_API_KEY)
    /\ frame.r.kind = "raises"
    /\ frame.sent.appid = req.api_key
    /\ netCalls = 1
    /\ resp.status = 500

\* The field a leaf of a container ends up as: the leaf, or null when the
\* container or the leaf is missing or null.
LeafOrNull(container, leaf) ==
    IF container.t = "obj" /\ container.f[leaf].t \notin {"absent", "null"}
    THEN container.f[leaf]
    ELSE JNull

\* The containers are as the claim lists them: missing, null or an object;
\* weather missing, null, an empty list or a list of an object.
ListedShape(data) ==
    /\ data.t = "obj"
    /\ \A c \in {"sys", "main", "wind"} :
           data.f[c].t \in {"absent", "null", "obj"}
    /\ \/ data.f["weather"].t \in {"absent", "null"}
       \/ /\ data.f["weather"].t = "list"
          /\ \A i \in 1..Len(data.f["weather"].items) :
                 data.f["weather"].items[i].t = "obj"

\* C9: on a 200 answer with a JSON object the result has all nine fields,
\* and a field whose container or leaf is missing or null is null; no error.
C9_MissingFieldsBecomeNull ==
    (/\ WeatherDone
     /\ netCalls = 1
     /\ frame.r.kind = "answer"
     /\ frame.r.status_code = 200
     /\ ListedShape(frame.r.body)) =>
        LET data == frame.r.body
            w == data.f["weather"]
            item == IF w.t = "list" /\ w.items # <<>> THEN w.items[1]
                    ELSE JNull
        IN  /\ resp.status = 200
            /\ DOMAIN resp.body =
                   {"city", "country", "temp", "feels_like", "humidity",
                    "wind", "weather_main", "weather_desc", "icon"}
            /\ resp.body.country = LeafOrNull(data.f["sys"], "country")
            /\ resp.body.temp = LeafOrNull(data.f["main"], "temp")
            /\ resp.body.feels_like = LeafOrNull(data.f["main"], "feels_like")
            /\ resp.body.humidity = LeafOrNull(data.f["main"], "humidity")
            /\ resp.body.wind = LeafOrNull(data.f["wind"], "speed")
            /\ resp.body.weather_main = LeafOrNull(item, "main")
            /\ resp.body.weather_desc = LeafOrNull(item, "description")
            /\ resp.body.icon = LeafOrNull(item, "icon")

(***************************************************************************)
(* test_database                                                           *)
(***************************************************************************)
\* A message of n characters, and s[:n].
Message(n) == [i \in 1..n |-> "x"]

Prefix(s, n) == SubSeq(s, 1, Min(n, Len(s)))

Running == "<U+00E2><U+0153><U+2026> Running"

\* What `from database import db` and db.list_collection_names() may do.
\* db is the start-up outcome of the import; the listing is tried per call.
DbStates ==
    { [module |-> "missing"], [module |-> "raises"],
      [module |-> "ok", handle |-> "None"],
      [module |-> "ok", handle |-> "db", has_name |-> TRUE],
      [module |-> "ok", handle |-> "db", has_name |-> FALSE] }

ListOutcomes ==
    { [kind |-> "ok", collections |-> [i \in 1..k |-> i]] :
          k \in 0..MaxCollections }
    \cup { [kind |-> "raises", message |-> Message(n)] : n \in 0..MaxErrLen }

ImportErrors == { Message(n) : n \in 0..MaxErrLen }

\* os.getenv(name) is truthy.
EnvSet(v) == v # NoneStr /\ v # <<>>

\* The listing without its own try: the outer handler reports the error.
ListCollectionsUncaught(response, listing) ==
    IF listing.kind = "ok"
    THEN [response EXCEPT
            !.collections = Prefix(listing.collections, 10),
            !.database =
                <<"<U+00E2><U+0153><U+2026> Connected & Working", <<>> >>]
    ELSE [response EXCEPT !.database =
            <<"<U+00E2><U+0152> Error: ", Prefix(listing.message, 50)>>]

\* The inner try/except around db.list_collection_names().
TryListCollections(response, listing) ==
    IF listing.kind = "ok"
    THEN [response EXCEPT
            !.collections = Prefix(listing.collections, 10),
            !.database =
                <<"<U+00E2><U+0153><U+2026> Connected & Working", <<>> >>]
    ELSE [response EXCEPT !.database =
            <<"<U+00E2><U+0161><U+00A0><U+00EF><U+00B8>  Connected but Error: ",
              Prefix(listing.message, 50)>>]

\* The response dict test_database builds, for an import that raised
\* `import_error` and a listing that went as `listing`.
DiagnosticsResponse(database, import_error, listing, environ) ==
    LET r0 == [backend |-> Running,
               database |-> <<"<U+00E2><U+0152> Not Available", <<>> >>,
               database_url |-> "None",
               database_name |-> "None",
               connection_status |-> "Not Connected",
               collections |-> <<>>]
        r1 == IF database.module = "missing"
              THEN [r0 EXCEPT !.database =
                       <<"<U+00E2><U+0152> Database module not found (run enable-database first)", <<>> >>]
              ELSE IF database.module = "raises"
              THEN [r0 EXCEPT !.database =
                       <<"<U+00E2><U+0152> Error: ", Prefix(import_error, 50)>>]
              ELSE IF database.handle = "None"
              THEN [r0 EXCEPT !.database =
                       <<"<U+00E2><U+0161><U+00A0><U+00EF><U+00B8>  Available but not initialized", <<>> >>]
              ELSE LET c == [r0 EXCEPT
                               !.database_url = "<U+00E2><U+0153><U+2026> Configured",
                               !.database_name =
                                   IF database.has_name THEN "db.name"
                                   ELSE "<U+00E2><U+0153><U+2026> Connected",
                               !.connection_status = "Connected"]
                   IN  TryListCollections(c, listing)
        r2 == [r1 EXCEPT
                 !.database_url =
                     IF EnvSet(environ.DATABASE_URL)
                     THEN "<U+00E2><U+0153><U+2026> Set"
                     ELSE "<U+00E2><U+0152> Not Set",
                 !.database_name =
                     IF EnvSet(environ.DATABASE_NAME)
                     THEN "<U+00E2><U+0153><U+2026> Set"
                     ELSE "<U+00E2><U+0152> Not Set"]
    IN  [status |-> 200, body |-> r2]

TestDatabase ==
    /\ pc = "idle"
    /\ \E import_error \in
            (IF db.module = "raises" THEN ImportErrors ELSE {<<>>}),
          listing \in
            (IF db.module = "ok" /\ db.handle = "db" THEN ListOutcomes
             ELSE {[kind |-> "untried"]}) :
        /\ req' = [op |-> "test_database"]
        /\ frame' = [op |-> "test_database", import_error |-> import_error,
                     listing |-> listing]
        /\ resp' = DiagnosticsResponse(db, import_error, listing, env)
    /\ pc' = "done"
    /\ UNCHANGED <<analyzer, env, db, netCalls>>

EnvValues == {NoneStr, <<>>, <<"s","e","t">>}

InitDiagnostics ==
    /\ analyzer = "None"
    /\ env \in {[NoEnv EXCEPT !.DATABASE_URL = u, !.DATABASE_NAME = n] :
                    u \in EnvValues, n \in EnvValues}
    /\ db \in DbStates
    /\ InitRequest

NextDiagnostics == TestDatabase \/ Respond

SpecDiagnostics == InitDiagnostics /\ [][NextDiagnostics]_vars

(***************************************************************************)
(* Claims about test_database.                                             *)
(***************************************************************************)
DiagnosticsDone == pc = "done" /\ req.op = "test_database"

\* C10: GET /test never fails: whatever the import, the handle, the listing
\* and the two environment variables do, the answer is a 200 report with the
\* six fields, backend running, and each failure a status string.
C10_DiagnosticsNeverFails ==
    DiagnosticsDone =>
        /\ resp.status = 200
        /\ DOMAIN resp.body =
               {"backend", "database", "database_url", "database_name",
                "connection_status", "collections"}
        /\ resp.body.backend = "<U+00E2><U+0153><U+2026> Running"
        /\ db.module = "missing" =>
               resp.body.database[1] =
                   "<U+00E2><U+0152> Database module not found (run enable-database first)"
        /\ db.module = "raises" =>
               /\ resp.body.database[1] = "<U+00E2><U+0152> Error: "
               /\ Len(resp.body.database[2]) <= 50
        /\ (db.module = "ok" /\ db.handle = "None") =>
               resp.body.database[1] =
                   "<U+00E2><U+0161><U+00A0><U+00EF><U+00B8>  Available but not initialized"
        /\ (db.module = "ok" /\ db.handle = "db"
                /\ frame.listing.kind = "raises") =>
               /\ resp.body.database[1] =
                      "<U+00E2><U+0161><U+00A0><U+00EF><U+00B8>  Connected but Error: "
               /\ Len(resp.body.database[2]) <= 50
               /\ resp.body.connection_status = "Connected"
        /\ (db.module = "ok" /\ db.handle = "db"
                /\ frame.listing.kind = "ok") =>
               /\ resp.body.database[1] =
                      "<U+00E2><U+0153><U+2026> Connected & Working"
               /\ Len(resp.body.collections) <= 10
        /\ resp.body.database_url \in
               {"<U+00E2><U+0153><U+2026> Set", "<U+00E2><U+0152> Not Set"}
        /\ resp.body.database_name \in
               {"<U+00E2><U+0153><U+2026> Set", "<U+00E2><U+0152> Not Set"}
        /\ (resp.body.database_url = "<U+00E2><U+0153><U+2026> Set")
               <=> Supplied(env.DATABASE_URL)
        /\ (resp.body.database_name = "<U+00E2><U+0153><U+2026> Set")
               <=> Supplied(env.DATABASE_NAME)

\* The listing raised with a message longer than 50 characters.
C10_Witness ==
    /\ DiagnosticsDone
    /\ db.module = "ok"
    /\ db.handle = "db"
    /\ frame.listing.kind = "raises"
    /\ Len(frame.listing.message) > 50
    /\ resp.status = 200
    /\ Len(resp.body.database[2]) = 50

(***************************************************************************)
(* The greeting routes and the whole service.                              *)
(***************************************************************************)
ReadRoot ==
    /\ pc = "idle"
    /\ req' = [op |-> "read_root"]
    /\ frame' = [op |-> "read_root"]
    /\ resp' = [status |-> 200,
                body |-> [message |-> "Hello from FastAPI Backend!"]]
    /\ pc' = "done"
    /\ UNCHANGED <<analyzer, env, db, netCalls>>

Hello ==
    /\ pc = "idle"
    /\ req' = [op |-> "hello"]
    /\ frame' = [op |-> "hello"]
    /\ resp' = [status |-> 200,
                body |-> [message |-> "Hello from the backend API!"]]
    /\ pc' = "done"
    /\ UNCHANGED <<analyzer, env, db, netCalls>>

\* The start-up configurations: the analyzer, the API key, or the database
\* and its two variables differ from the bare configuration, one at a time.
Init == InitSentiment \/ InitWeather \/ InitDiagnostics

Next ==
    \/ ReadRoot
    \/ Hello
    \/ GetWeather
    \/ AnalyzeSentiment
    \/ VibeNote
    \/ TestDatabase
    \/ Respond

Spec == Init /\ [][Next]_vars

\* The fallback heuristic alone: start-up found no analyzer.
InitFallback ==
    /\ analyzer = "None"
    /\ env = NoEnv
    /\ db = NoDb
    /\ InitRequest

NextFallback == AnalyzeKeywordText \/ Respond

SpecFallback == InitFallback /\ [][NextFallback]_vars

====
